---- MODULE Spec2Model ----
(***************************************************************************)
(* Library index update (src/src/index/update.rs): update = clean then     *)
(* populate.  clean diffs the stored song/directory paths against the      *)
(* filesystem and the VFS and deletes the missing ones in chunks; populate *)
(* walks every mount point with an IndexBuilder that aggregates directory  *)
(* tags and writes Song/Directory rows through two insert buffers.         *)
(*                                                                         *)
(* The recursion of populate_directory is an explicit stack of frames; a   *)
(* frame holds the locals of one call.  Every store call, every directory  *)
(* entry and every flush is one step, so that the order in which rows      *)
(* reach the store is observable.                                          *)
(***************************************************************************)
EXTENDS Integers, Sequences, FiniteSets, TLC

VARIABLES
    fs,                 \* the filesystem: root name -> listing (a tree)
    mounts,             \* vfs.get_mount_points().values(), in order
    capacity,           \* new_songs.capacity() = new_directories.capacity()
    chunk_size,         \* the chunk length of clean's deletes
    calls,              \* how many times the caller calls update
    songs,              \* table songs: rows in rowid order
    directories,        \* table directories: rows in rowid order
    pc,                 \* position inside update
    result,             \* what the last update returned: "none", "ok", "err"
    runs,               \* number of update calls started
    missing,            \* clean: the missing paths not deleted yet
    new_songs,          \* IndexBuilder.new_songs
    new_directories,    \* IndexBuilder.new_directories
    stack,              \* the populate_directory calls in progress
    mount_idx,          \* populate: index of the next mount point
    oplog,              \* history: the store statements of this update
    pushed_songs,       \* history: records handed to push_song this pass
    pushed_directories, \* history: records handed to push_directory
    visits,             \* history: populate_directory calls of this pass
    snap                \* history: the tables at earlier points

vars == <<fs, mounts, capacity, chunk_size, calls, songs, directories, pc, result,
          runs, missing, new_songs, new_directories, stack, mount_idx,
          oplog, pushed_songs, pushed_directories, visits, snap>>

config == <<fs, mounts, capacity, chunk_size, calls>>

(***************************************************************************)
(* Bounds of the model.                                                    *)
(***************************************************************************)
\* insert buffer capacities explored: 1..MaxCapacity
MaxCapacity == 2
\* cleanup chunk sizes explored: 1..MaxChunk
MaxChunk == 2
\* update is called at most MaxRuns times in a behaviour
MaxRuns == 2
\* a directory listing has at most MaxEntries entries
MaxEntries == 2

(***************************************************************************)
(* Option<T>: None is the empty tuple, Some(v) the one-element tuple.      *)
(***************************************************************************)
None == <<>>
Some(v) == <<v>>
IsSome(o) == o # <<>>
IsNone(o) == o = <<>>

Range(s) == {s[i] : i \in DOMAIN s}

Min(a, b) == IF a <= b THEN a ELSE b

SeqsUpTo(S, n) == UNION {[1..k -> S] : k \in 0..n}

\* `n as i32` for an unsigned 32-bit n.  The tag numbers of the model are
\* below 2^31 (the integers of the model checker end there), where the cast
\* keeps the value; above, it would wrap to n - 2^32.
AsI32(n) == IF n <= 2147483647 THEN n ELSE n - 2147483647 - 2147483647 - 2

(***************************************************************************)
(* The filesystem.  A path is the sequence of entry names from a root; the *)
(* name of an entry is its position in the listing of its directory, so    *)
(* read_dir yields the entries of a listing in order.  A node is a file    *)
(* (with the outcome of metadata::read), a directory (with its own         *)
(* listing) or a failed directory entry.                                   *)
(***************************************************************************)
SongTags(title, artist, album_artist, album, year) ==
    [title |-> title, artist |-> artist, album_artist |-> album_artist,
     album |-> album, year |-> year, track_number |-> Some(1),
     disc_number |-> None, duration |-> Some(180)]

\* a regular file: tags = Some(t) when metadata::read succeeds, art = the
\* file name matches album_art_pattern, utf8 = the path is valid unicode
FileNode(tags, art, utf8) ==
    [kind |-> "file", tags |-> tags, art |-> art, utf8 |-> utf8, sub |-> <<>>]
DirNode(listing, art) ==
    [kind |-> "dir", tags |-> None, art |-> art, utf8 |-> TRUE, sub |-> listing]
\* an Err item of the read_dir iterator
ErrNode ==
    [kind |-> "err", tags |-> None, art |-> FALSE, utf8 |-> TRUE, sub |-> <<>>]

RECURSIVE ListingAt(_, _)
\* the listing of the directory at path p below `listing`, <<>> when p is
\* no directory
ListingAt(listing, p) ==
    IF p = <<>> THEN listing
    ELSE IF Head(p) \in DOMAIN listing /\ listing[Head(p)].kind = "dir"
         THEN ListingAt(listing[Head(p)].sub, Tail(p))
         ELSE <<>>

RootListing(p) == IF p[1] \in DOMAIN fs THEN fs[p[1]] ELSE <<>>

\* fs::read_dir(p), collected
ReadDir(p) == ListingAt(RootListing(p), Tail(p))

ParentPath(p) == SubSeq(p, 1, Len(p) - 1)

\* the node at path p; only for paths of length >= 2 that exist
NodeAt(p) == ReadDir(ParentPath(p))[p[Len(p)]]

RECURSIVE ExistsBelow(_, _)
ExistsBelow(listing, p) ==
    IF p = <<>> \/ Head(p) \notin DOMAIN listing THEN FALSE
    ELSE IF listing[Head(p)].kind = "err" THEN FALSE
    ELSE IF Len(p) = 1 THEN TRUE
    ELSE IF listing[Head(p)].kind # "dir" THEN FALSE
    ELSE ExistsBelow(listing[Head(p)].sub, Tail(p))

\* Path::exists
PathExists(p) ==
    IF p = <<>> THEN FALSE
    ELSE IF p[1] \notin DOMAIN fs THEN FALSE
    ELSE IF Len(p) = 1 THEN TRUE
    ELSE ExistsBelow(fs[p[1]], Tail(p))

\* Path::is_dir
IsDir(p) ==
    IF ~PathExists(p) THEN FALSE
    ELSE IF Len(p) = 1 THEN TRUE
    ELSE NodeAt(p).kind = "dir"

IsPrefix(a, b) == IF Len(a) <= Len(b) THEN SubSeq(b, 1, Len(a)) = a ELSE FALSE

\* vfs.real_to_virtual(p).is_ok(): p lies below some mount point
RealToVirtualOk(p) == \E i \in DOMAIN mounts : IsPrefix(mounts[i], p)

(***************************************************************************)
(* The record store.  A table is the sequence of its rows in rowid order.  *)
(* path is unique in both tables: inserting a row whose path is stored     *)
(* replaces the stored row.  One statement is one transaction.             *)
(***************************************************************************)
WithoutPaths(table, paths) ==
    LET Keep(r) == r.path \notin paths IN SelectSeq(table, Keep)

RECURSIVE InsertRows(_, _)
\* diesel::insert_into(table).values(batch).execute(..)
InsertRows(table, batch) ==
    IF batch = <<>> THEN table
    ELSE InsertRows(Append(WithoutPaths(table, {Head(batch).path}), Head(batch)),
                    Tail(batch))

\* a variant of DeleteRows whose delete has lost its filter
DeleteRowsUnfiltered(table, chunk) == <<>>

\* diesel::delete(table.filter(path.eq_any(chunk))).execute(..)
DeleteRows(table, chunk) == WithoutPaths(table, Range(chunk))

\* table.select(path).load(..)
SelectPaths(table) == [i \in DOMAIN table |-> table[i].path]

Rows(table) == Range(table)
StoredPaths(table) == {r.path : r \in Range(table)}

(***************************************************************************)
(* clean                                                                   *)
(***************************************************************************)
\* a variant of IsMissing that forgets the VFS test
IsMissingExistsOnly(p) == ~PathExists(p)

\* the filter of all_songs / all_directories
IsMissing(p) == IF PathExists(p) THEN ~RealToVirtualOk(p) ELSE TRUE

MissingPaths(all) == SelectSeq(all, IsMissing)

\* a variant of FirstChunk that takes one path of every chunk
FirstChunkOne(paths, n) == SubSeq(paths, 1, Min(1, Len(paths)))

\* the first chunk of missing[..].chunks(n)
FirstChunk(paths, n) == SubSeq(paths, 1, Min(n, Len(paths)))

\* a variant of RestChunks whose loop stops after one chunk
RestChunksNone(paths, n) == <<>>

\* what the chunk loop still has to delete after the first chunk
RestChunks(paths, n) == SubSeq(paths, Min(n, Len(paths)) + 1, Len(paths))

(***************************************************************************)
(* IndexBuilder: records, artwork, aggregates                              *)
(***************************************************************************)
MapI32(o) == IF IsSome(o) THEN Some(AsI32(o[1])) ELSE None

\* a variant of NewSong that does not pass the artwork of the directory on
NewSongWithoutArtwork(file_path, path, tags, artwork) ==
    [path |-> file_path, parent |-> path,
     disc_number |-> MapI32(tags.disc_number),
     track_number |-> MapI32(tags.track_number),
     title |-> tags.title, duration |-> MapI32(tags.duration),
     artist |-> tags.artist, album_artist |-> tags.album_artist,
     album |-> tags.album, year |-> tags.year, artwork |-> None]

\* lines 202-214
NewSong(file_path, path, tags, artwork) ==
    [path |-> file_path, parent |-> path,
     disc_number |-> MapI32(tags.disc_number),
     track_number |-> MapI32(tags.track_number),
     title |-> tags.title, duration |-> MapI32(tags.duration),
     artist |-> tags.artist, album_artist |-> tags.album_artist,
     album |-> tags.album, year |-> tags.year, artwork |-> artwork]

\* the creation (else modification) time of a directory, in seconds
Created(path) == 1000 + Len(path)

RECURSIVE FirstMatch(_, _, _)
\* get_artwork's loop over read_dir(dir) from entry i: an Err entry ends it
\* with an error (None after unwrap_or), the first matching name is returned
FirstMatch(dir, listing, i) ==
    IF i > Len(listing) THEN None
    ELSE IF listing[i].kind = "err" THEN None
    ELSE IF listing[i].utf8 /\ listing[i].art THEN Some(dir \o <<i>>)
    ELSE FirstMatch(dir, listing, i + 1)

\* self.get_artwork(path).unwrap_or(None)
GetArtwork(dir) == FirstMatch(dir, ReadDir(dir), 1)

\* a variant of Inconsistent that assigns the flag instead of or-ing it
InconsistentAssigned(flag, cur, tag) == IsSome(cur) /\ cur # tag

\* `inconsistent |= cur.is_some() && cur != tag`, run when tag.is_some()
Inconsistent(flag, cur, tag) == flag \/ (IsSome(cur) /\ cur # tag)

\* a variant of NewFrame that takes the parent from the path, not from the
\* caller
NewFrameParentFromPath(parent, path) ==
    [path |-> path, parent |-> Some(ParentPath(path)),
     artwork |-> GetArtwork(path),
     created |-> Created(path), idx |-> 1,
     directory_album |-> None, directory_year |-> None,
     directory_artist |-> None,
     inconsistent_directory_album |-> FALSE,
     inconsistent_directory_year |-> FALSE,
     inconsistent_directory_artist |-> FALSE,
     sub_directories |-> <<>>, phase |-> "list", broke |-> FALSE]

\* the locals of populate_directory(parent, path) when its loop starts
NewFrame(parent, path) ==
    [path |-> path, parent |-> parent, artwork |-> GetArtwork(path),
     created |-> Created(path), idx |-> 1,
     directory_album |-> None, directory_year |-> None,
     directory_artist |-> None,
     inconsistent_directory_album |-> FALSE,
     inconsistent_directory_year |-> FALSE,
     inconsistent_directory_artist |-> FALSE,
     sub_directories |-> <<>>, phase |-> "list", broke |-> FALSE]

\* a variant of WithTags that prefers artist over album_artist
WithTagsArtistFirst(f, tags) ==
    LET y == IF IsSome(tags.year)
             THEN [f EXCEPT
                     !.inconsistent_directory_year =
                         Inconsistent(@, f.directory_year, tags.year),
                     !.directory_year = tags.year]
             ELSE f
        a == IF IsSome(tags.album)
             THEN [y EXCEPT
                     !.inconsistent_directory_album =
                         Inconsistent(@, f.directory_album, tags.album),
                     !.directory_album = tags.album]
             ELSE y
    IN  IF IsSome(tags.artist)
        THEN [a EXCEPT
                !.inconsistent_directory_artist =
                    Inconsistent(@, f.directory_artist, tags.artist),
                !.directory_artist = tags.artist]
        ELSE IF IsSome(tags.album_artist)
        THEN [a EXCEPT
                !.inconsistent_directory_artist =
                    Inconsistent(@, f.directory_artist, tags.album_artist),
                !.directory_artist = tags.album_artist]
        ELSE a

\* lines 180-200: the aggregates after a file with these tags
WithTags(f, tags) ==
    LET y == IF IsSome(tags.year)
             THEN [f EXCEPT
                     !.inconsistent_directory_year =
                         Inconsistent(@, f.directory_year, tags.year),
                     !.directory_year = tags.year]
             ELSE f
        a == IF IsSome(tags.album)
             THEN [y EXCEPT
                     !.inconsistent_directory_album =
                         Inconsistent(@, f.directory_album, tags.album),
                     !.directory_album = tags.album]
             ELSE y
    IN  IF IsSome(tags.album_artist)
        THEN [a EXCEPT
                !.inconsistent_directory_artist =
                    Inconsistent(@, f.directory_artist, tags.album_artist),
                !.directory_artist = tags.album_artist]
        ELSE IF IsSome(tags.artist)
        THEN [a EXCEPT
                !.inconsistent_directory_artist =
                    Inconsistent(@, f.directory_artist, tags.artist),
                !.directory_artist = tags.artist]
        ELSE a

\* lines 222-240: the Directory record of a frame
NewDirectory(f) ==
    [path |-> f.path, parent |-> f.parent, artwork |-> f.artwork,
     album |-> IF f.inconsistent_directory_album THEN None
               ELSE f.directory_album,
     artist |-> IF f.inconsistent_directory_artist THEN None
                ELSE f.directory_artist,
     year |-> IF f.inconsistent_directory_year THEN None
              ELSE f.directory_year,
     date_added |-> f.created]

\* a variant of Entries that lists the files of the sub-directories too
EntriesRecursive(path) ==
    LET l == ReadDir(path)
        Sub(i) == IF l[i].kind = "dir" THEN l[i].sub ELSE <<>>
        F[i \in 0..Len(l)] == IF i = 0 THEN <<>> ELSE F[i - 1] \o Sub(i)
        IsFile(n) == n.kind = "file"
    IN  l \o SelectSeq(F[Len(l)], IsFile)

\* the entries the loop of populate_directory iterates: fs::read_dir(path)
Entries(path) == ReadDir(path)

\* a variant of AfterEntryError that goes on with the next entry
AfterEntryErrorContinues(f, listing) == [f EXCEPT !.idx = @ + 1]

\* lines 165-171: an Err item of read_dir is logged and ends the loop
AfterEntryError(f, listing) ==
    [f EXCEPT !.idx = Len(listing) + 1, !.broke = TRUE]

\* a variant of AfterUnreadable that leaves the loop
AfterUnreadableBreaks(f, listing) == [f EXCEPT !.idx = Len(listing) + 1]

\* the loop after a file whose path is not unicode or whose tags cannot be
\* read: nothing but the next entry
AfterUnreadable(f, listing) == [f EXCEPT !.idx = @ + 1]

\* a variant of MustFlush that lets a full buffer take one more record
MustFlushLate(buffer) == Len(buffer) > capacity

\* push_song / push_directory test `len() >= capacity()` before appending
MustFlush(buffer) == Len(buffer) >= capacity

\* a variant of Pushed that loses the record when the push flushed
PushedDropsAfterFlush(buffer, record, flushed) ==
    IF flushed THEN <<>> ELSE Append(buffer, record)

\* a variant of Pushed that puts the record in front of the buffer
PushedInFront(buffer, record, flushed) ==
    <<record>> \o (IF flushed THEN <<>> ELSE buffer)

\* a variant of Pushed whose flush does not clear the buffer
PushedKeepsFlushed(buffer, record, flushed) == Append(buffer, record)

\* the buffer after push: flush_*() cleared it when it ran and succeeded
Pushed(buffer, record, flushed) ==
    Append(IF flushed THEN <<>> ELSE buffer, record)

\* a variant of NotPushed whose flush clears the buffer before it inserts
NotPushedCleared(buffer, record) == <<>>

\* the buffer after a push whose flush failed: flush_*() returned at its `?`
\* before clear(), and push_*() returned at its `?` before push()
NotPushed(buffer, record) == buffer

\* a variant of Raised that ignores the error of the flush
RaisedNever(needed, ok) == FALSE

\* `self.flush_songs()?` / `self.flush_directories()?` inside push_*: the
\* push returns the error of a flush that was needed and failed
Raised(needed, ok) == needed /\ ~ok

\* a variant of CleanReturns in which update ignores the error of clean
CleanReturnsIgnored(ok) == "populate"

\* `clean(db)?` in update: where update continues once clean has returned
CleanReturns(ok) == IF ok THEN "populate" ELSE "done"

\* an entry of oplog: one statement sent to the store
Op(op, table, rows, ok) == [op |-> op, table |-> table, rows |-> rows, ok |-> ok]

Top == stack[Len(stack)]
SetTop(f) == [stack EXCEPT ![Len(stack)] = f]

(***************************************************************************)
(* update, clean                                                           *)
(***************************************************************************)
walk_vars == <<new_songs, new_directories, stack, mount_idx,
               pushed_songs, pushed_directories, visits>>

\* update() is entered and clean lists the stored song paths (lines 20-23,
\* 254-269).  ok: get_vfs, connect and load all succeed.  The caller calls
\* update again only after an update that returned Ok.
Update(ok) ==
    /\ pc \in {"idle", "done"}
    /\ runs < calls
    /\ (pc = "done" => result = "ok")
    /\ runs' = runs + 1
    /\ snap' = [snap EXCEPT !.prev_songs = songs,
                            !.prev_directories = directories,
                            !.prev_result = result,
                            !.start_songs = songs,
                            !.start_directories = directories,
                            !.clean = IF ok THEN "running" ELSE "err",
                            !.populate = "none"]
    /\ oplog' = <<>>
    /\ new_songs' = <<>> /\ new_directories' = <<>>
    /\ stack' = <<>> /\ mount_idx' = 1
    /\ pushed_songs' = <<>> /\ pushed_directories' = <<>> /\ visits' = <<>>
    /\ IF ok
       THEN /\ missing' = MissingPaths(SelectPaths(songs))
            /\ pc' = "clean_songs"
            /\ result' = "none"
       ELSE /\ missing' = <<>>
            /\ pc' = CleanReturns(FALSE)
            /\ result' = IF pc' = "done" THEN "err" ELSE "none"
    /\ UNCHANGED <<config, songs, directories>>

\* lines 271-277: connect, then one delete per chunk of missing_songs; a
\* step is the connect when nothing is missing, else the next chunk
CleanDeleteSongs(ok) ==
    /\ pc = "clean_songs"
    /\ IF ok
       THEN /\ songs' = DeleteRows(songs, FirstChunk(missing, chunk_size))
            /\ missing' = RestChunks(missing, chunk_size)
            /\ pc' = IF missing' = <<>> THEN "clean_list_directories"
                     ELSE "clean_songs"
            /\ result' = result
       ELSE /\ UNCHANGED <<songs, missing>>
            /\ pc' = CleanReturns(FALSE)
            /\ result' = IF pc' = "done" THEN "err" ELSE result
    /\ oplog' = IF missing = <<>> THEN oplog
                ELSE Append(oplog, Op("delete", "songs",
                                      FirstChunk(missing, chunk_size), ok))
    /\ snap' = IF ok THEN snap ELSE [snap EXCEPT !.clean = "err"]
    /\ UNCHANGED <<config, directories, runs, walk_vars>>

\* lines 280-295: list the stored directory paths and filter them
CleanListDirectories(ok) ==
    /\ pc = "clean_list_directories"
    /\ IF ok
       THEN /\ missing' = MissingPaths(SelectPaths(directories))
            /\ pc' = "clean_directories"
            /\ result' = result
       ELSE /\ UNCHANGED missing
            /\ pc' = CleanReturns(FALSE)
            /\ result' = IF pc' = "done" THEN "err" ELSE result
    /\ snap' = IF ok THEN snap ELSE [snap EXCEPT !.clean = "err"]
    /\ UNCHANGED <<config, songs, directories, runs, walk_vars, oplog>>

\* lines 297-306: connect, then one delete per chunk of missing_directories;
\* after the last chunk clean returns Ok
CleanDeleteDirectories(ok) ==
    /\ pc = "clean_directories"
    /\ IF ok
       THEN /\ directories' =
                  DeleteRows(directories, FirstChunk(missing, chunk_size))
            /\ missing' = RestChunks(missing, chunk_size)
            /\ pc' = IF missing' = <<>> THEN CleanReturns(TRUE)
                     ELSE "clean_directories"
            /\ result' = result
       ELSE /\ UNCHANGED <<directories, missing>>
            /\ pc' = CleanReturns(FALSE)
            /\ result' = IF pc' = "done" THEN "err" ELSE result
    /\ oplog' = IF missing = <<>> THEN oplog
                ELSE Append(oplog, Op("delete", "directories",
                                      FirstChunk(missing, chunk_size), ok))
    /\ snap' = [snap EXCEPT !.cleaned_songs = songs,
                            !.cleaned_directories = directories',
                            !.clean = IF ~ok THEN "err"
                                      ELSE IF missing' = <<>> THEN "ok"
                                      ELSE "running"]
    /\ UNCHANGED <<config, songs, runs, walk_vars>>

(***************************************************************************)
(* populate                                                                *)
(***************************************************************************)
\* lines 310-321: get_vfs, the mount points, the settings, the pattern and
\* the builder with its two empty buffers
Populate(ok) ==
    /\ pc = "populate"
    /\ new_songs' = <<>> /\ new_directories' = <<>>
    /\ stack' = <<>> /\ mount_idx' = 1
    /\ pc' = IF ok THEN "walk" ELSE "done"
    /\ result' = IF ok THEN result ELSE "err"
    /\ snap' = [snap EXCEPT !.populate = IF ok THEN "running" ELSE "err"]
    /\ UNCHANGED <<config, songs, directories, runs, missing, oplog,
                   pushed_songs, pushed_directories, visits>>

\* populate_directory returned an error: every caller propagates it with `?`
\* up to update, which returns it
Abort ==
    /\ pc' = "done"
    /\ result' = "err"
    /\ snap' = [snap EXCEPT !.populate = "err"]

Continue == UNCHANGED <<pc, result, snap>>

EnterOutcomes == {"ok", "invalid_path", "metadata_err", "read_dir_err"}

\* a variant of Enters in which a directory without timestamps is indexed
EntersWithoutTimestamp(outcome) == outcome \in {"ok", "metadata_err"}

\* populate_directory reaches its loop when none of the `?` of lines 141,
\* 144-148 and 162 returns an error
Enters(outcome) == outcome = "ok"

\* the call populate_directory(parent, path) up to the start of its loop
\* (lines 135-162), made by populate for the next mount point (line 323)
\* or by the populate_directory on top of the stack for its next
\* sub-directory (line 245)
PopulateDirectory(outcome) ==
    /\ pc = "walk"
    /\ \/ stack = <<>> /\ mount_idx <= Len(mounts)
       \/ stack # <<>> /\ Top.phase = "subdirs" /\ Top.sub_directories # <<>>
    /\ LET root == stack = <<>>
           parent == IF root THEN None ELSE Some(Top.path)
           path == IF root THEN mounts[mount_idx] ELSE Head(Top.sub_directories)
           callers == IF root THEN stack
                      ELSE SetTop([Top EXCEPT !.sub_directories = Tail(@)])
       IN  /\ outcome = "ok" => IsDir(path)
           /\ mount_idx' = IF root THEN mount_idx + 1 ELSE mount_idx
           /\ visits' = Append(visits, [path |-> path, parent |-> parent,
                                        outcome |-> outcome])
           /\ IF Enters(outcome)
              THEN /\ stack' = Append(callers, NewFrame(parent, path))
                   /\ Continue
              ELSE /\ stack' = callers
                   /\ Abort
    /\ UNCHANGED <<config, songs, directories, runs, missing, new_songs,
                   new_directories, oplog, pushed_songs, pushed_directories>>

\* one iteration of the loop over read_dir(path) (lines 162-219); ok is the
\* outcome of the flush that push_song runs when the buffer is full
ProcessEntry(ok) ==
    /\ pc = "walk"
    /\ stack # <<>>
    /\ Top.phase = "list"
    /\ Top.idx <= Len(Entries(Top.path))
    /\ LET f == Top
           listing == Entries(f.path)
           node == listing[f.idx]
           file_path == f.path \o <<f.idx>>
           next == [f EXCEPT !.idx = @ + 1]
           needed == MustFlush(new_songs)
       IN  IF node.kind = "file" /\ node.utf8 /\ IsSome(node.tags)
           THEN LET tags == node.tags[1]
                    song == NewSong(file_path, f.path, tags, f.artwork)
                IN  /\ needed \/ ok
                    /\ pushed_songs' = Append(pushed_songs, song)
                    /\ songs' = IF needed /\ ok
                                THEN InsertRows(songs, new_songs) ELSE songs
                    /\ oplog' = IF needed
                                THEN Append(oplog,
                                            Op("insert", "songs", new_songs, ok))
                                ELSE oplog
                    /\ IF Raised(needed, ok)
                       THEN /\ new_songs' = NotPushed(new_songs, song)
                            /\ stack' = SetTop(WithTags(f, tags))
                            /\ Abort
                       ELSE /\ new_songs' = Pushed(new_songs, song, needed /\ ok)
                            /\ stack' = SetTop(WithTags(next, tags))
                            /\ Continue
           ELSE /\ ok
                /\ stack' =
                     SetTop(CASE node.kind = "err" -> AfterEntryError(f, listing)
                              [] node.kind = "dir" ->
                                   [next EXCEPT !.sub_directories =
                                                    Append(@, file_path)]
                              [] OTHER -> AfterUnreadable(f, listing))
                /\ Continue
                /\ UNCHANGED <<songs, new_songs, oplog, pushed_songs>>
    /\ UNCHANGED <<config, directories, runs, missing, new_directories,
                   mount_idx, pushed_directories, visits>>

\* lines 221-241: after the loop, the Directory record is built and pushed;
\* ok is the outcome of the flush that push_directory runs when the buffer
\* is full
InsertDirectory(ok) ==
    /\ pc = "walk"
    /\ stack # <<>>
    /\ Top.phase = "list"
    /\ Top.idx > Len(Entries(Top.path))
    /\ LET f == Top
           directory == NewDirectory(f)
           needed == MustFlush(new_directories)
       IN  /\ needed \/ ok
           /\ pushed_directories' = Append(pushed_directories, directory)
           /\ directories' = IF needed /\ ok
                             THEN InsertRows(directories, new_directories)
                             ELSE directories
           /\ oplog' = IF needed
                       THEN Append(oplog, Op("insert", "directories",
                                             new_directories, ok))
                       ELSE oplog
           /\ IF Raised(needed, ok)
              THEN /\ new_directories' = NotPushed(new_directories, directory)
                   /\ stack' = stack
                   /\ Abort
              ELSE /\ new_directories' =
                         Pushed(new_directories, directory, needed /\ ok)
                   /\ stack' = SetTop([f EXCEPT !.phase = "subdirs"])
                   /\ Continue
    /\ UNCHANGED <<config, songs, runs, missing, new_songs, mount_idx,
                   pushed_songs, visits>>

\* line 248: every sub-directory is populated, populate_directory returns Ok
ReturnDirectory ==
    /\ pc = "walk"
    /\ stack # <<>>
    /\ Top.phase = "subdirs"
    /\ Top.sub_directories = <<>>
    /\ stack' = SubSeq(stack, 1, Len(stack) - 1)
    /\ UNCHANGED <<config, songs, directories, pc, result, runs, missing,
                   new_songs, new_directories, mount_idx, oplog, pushed_songs,
                   pushed_directories, visits, snap>>

\* a variant of AfterFlushSongs that forgets the final flush_directories
AfterFlushSongsDone == "done"

\* where populate continues after `builder.flush_songs()?` (line 325)
AfterFlushSongs == "flush_directories"

\* line 325: every mount point is populated, the song buffer is flushed
FlushSongs(ok) ==
    /\ pc = "walk"
    /\ stack = <<>>
    /\ mount_idx > Len(mounts)
    /\ oplog' = Append(oplog, Op("insert", "songs", new_songs, ok))
    /\ IF ok
       THEN /\ songs' = InsertRows(songs, new_songs)
            /\ new_songs' = <<>>
            /\ pc' = AfterFlushSongs
            /\ result' = IF pc' = "done" THEN "ok" ELSE result
            /\ snap' = IF pc' = "done" THEN [snap EXCEPT !.populate = "ok"]
                       ELSE snap
       ELSE /\ UNCHANGED <<songs, new_songs>>
            /\ Abort
    /\ UNCHANGED <<config, directories, runs, missing, new_directories, stack,
                   mount_idx, pushed_songs, pushed_directories, visits>>

\* lines 326-327 and 25-31: the directory buffer is flushed, populate and
\* update return Ok
FlushDirectories(ok) ==
    /\ pc = "flush_directories"
    /\ oplog' = Append(oplog, Op("insert", "directories", new_directories, ok))
    /\ IF ok
       THEN /\ directories' = InsertRows(directories, new_directories)
            /\ new_directories' = <<>>
            /\ pc' = "done"
            /\ result' = "ok"
            /\ snap' = [snap EXCEPT !.populate = "ok"]
       ELSE /\ UNCHANGED <<directories, new_directories>>
            /\ Abort
    /\ UNCHANGED <<config, songs, runs, missing, new_songs, stack, mount_idx,
                   pushed_songs, pushed_directories, visits>>

Next ==
    \/ \E ok \in BOOLEAN : Update(ok)
    \/ \E ok \in BOOLEAN : CleanDeleteSongs(ok)
    \/ \E ok \in BOOLEAN : CleanListDirectories(ok)
    \/ \E ok \in BOOLEAN : CleanDeleteDirectories(ok)
    \/ \E ok \in BOOLEAN : Populate(ok)
    \/ \E outcome \in EnterOutcomes : PopulateDirectory(outcome)
    \/ \E ok \in BOOLEAN : ProcessEntry(ok)
    \/ \E ok \in BOOLEAN : InsertDirectory(ok)
    \/ ReturnDirectory
    \/ \E ok \in BOOLEAN : FlushSongs(ok)
    \/ \E ok \in BOOLEAN : FlushDirectories(ok)

(***************************************************************************)
(* Initial states: a filesystem, the mount points, the two batch sizes and *)
(* the rows an earlier index left in the store.                            *)
(***************************************************************************)
\* a row as an older index wrote it
OldSong(path) ==
    NewSong(path, ParentPath(path),
            SongTags(Some("old"), None, None, None, None), None)
OldDirectory(path) ==
    [path |-> path,
     parent |-> IF Len(path) = 1 THEN None ELSE Some(ParentPath(path)),
     artwork |-> None, album |-> None, artist |-> None, year |-> None,
     date_added |-> 900]

RECURSIVE Masked(_, _)
\* the subsequence of s that mask selects
Masked(s, mask) ==
    IF s = <<>> THEN <<>>
    ELSE (IF Head(mask) THEN <<Head(s)>> ELSE <<>>)
         \o Masked(Tail(s), Tail(mask))

SubSeqs(s) == {Masked(s, mask) : mask \in [DOMAIN s -> BOOLEAN]}

Store(s, d) == [songs |-> s, directories |-> d]

InitFrom(filesystems, mountings, stores, capacities, chunks, updates) ==
    /\ calls = updates
    /\ fs \in filesystems
    /\ mounts \in mountings
    /\ capacity \in capacities
    /\ chunk_size \in chunks
    /\ \E st \in stores :
          /\ songs = st.songs
          /\ directories = st.directories
          /\ snap = [prev_songs |-> <<>>, prev_directories |-> <<>>,
                     prev_result |-> "none",
                     start_songs |-> st.songs,
                     start_directories |-> st.directories,
                     cleaned_songs |-> st.songs,
                     cleaned_directories |-> st.directories,
                     clean |-> "none", populate |-> "none"]
    /\ pc = "idle"
    /\ result = "none"
    /\ runs = 0
    /\ missing = <<>>
    /\ new_songs = <<>> /\ new_directories = <<>>
    /\ stack = <<>> /\ mount_idx = 1
    /\ oplog = <<>>
    /\ pushed_songs = <<>> /\ pushed_directories = <<>> /\ visits = <<>>

TagsX == SongTags(Some("t"), Some("X"), None, Some("A"), Some(2000))
Track == FileNode(Some(TagsX), FALSE, TRUE)

\* rows of an older index: two whose paths are gone, one that still exists
LegacyStore ==
    Store(<<OldSong(<<3, 1>>), OldSong(<<1, 1>>), OldSong(<<1, 9>>)>>,
          <<OldDirectory(<<3>>), OldDirectory(<<1>>)>>)
EmptyStore == Store(<<>>, <<>>)

\* trees of depth two built from one kind of file
LeafListings == SeqsUpTo({Track}, MaxEntries)
TreeListings ==
    SeqsUpTo({Track} \cup {DirNode(l, FALSE) : l \in LeafListings}, MaxEntries)

TreeFilesystems == {<<r, <<Track>>>> : r \in TreeListings}

\* the caller calls update up to MaxRuns times on trees of two mount points
Init ==
    InitFrom(TreeFilesystems, {<< <<1>>, <<2>> >>},
             {EmptyStore, LegacyStore}, 1..MaxCapacity, {MaxChunk}, MaxRuns)

Spec == Init /\ [][Next]_vars

\* one filesystem, every choice of stored rows among rows whose path is
\* gone, exists below a mount point, or exists outside every mount point;
\* the caller calls update once
CleanSongs ==
    <<OldSong(<<3, 1>>), OldSong(<<1, 1>>), OldSong(<<2, 1>>),
      OldSong(<<1, 9>>), OldSong(<<1, 2, 1>>)>>
CleanDirectories ==
    <<OldDirectory(<<3>>), OldDirectory(<<1>>), OldDirectory(<<2>>),
      OldDirectory(<<1, 2>>)>>

InitClean ==
    InitFrom({<< <<Track, DirNode(<<Track>>, FALSE)>>, <<Track>> >>},
             {<< <<1>> >>, << <<1>>, <<2>> >>, << <<1, 2>> >>},
             {Store(s, d) : s \in SubSeqs(CleanSongs),
                            d \in SubSeqs(CleanDirectories)},
             {MaxCapacity}, 1..MaxChunk, 1)

SpecClean == InitClean /\ [][Next]_vars

\* one mounted directory whose files carry every mix of album and year
\* tags, with unreadable files, cover images, a failed entry and a
\* sub-directory whose file disagrees with every file above it
TagChoices ==
    {SongTags(Some("t"), Some("X"), None, t[1], t[2]) :
        t \in {<<Some("A"), Some(2000)>>, <<Some("B"), Some(2000)>>,
               <<Some("A"), Some(2001)>>, <<Some("A"), None>>,
               <<None, Some(2000)>>, <<None, None>>}}
Unreadable == FileNode(None, FALSE, TRUE)
Cover == FileNode(None, TRUE, TRUE)
NotUnicode == FileNode(Some(TagsX), FALSE, FALSE)
TagEntries ==
    {FileNode(Some(t), FALSE, TRUE) : t \in TagChoices}
        \cup {Unreadable, Cover, NotUnicode, ErrNode}
Below ==
    DirNode(<<FileNode(Some(SongTags(Some("u"), Some("Y"), None,
                                     Some("C"), Some(1999))), FALSE, TRUE)>>,
            FALSE)

InitTags ==
    InitFrom({<<l, <<Track>>>> :
                 l \in UNION {{<<Below>> \o f, f \o <<Below>>} :
                                 f \in SeqsUpTo(TagEntries, MaxEntries + 1)}},
             {<< <<1>> >>}, {LegacyStore}, {MaxCapacity}, {MaxChunk}, 1)

SpecTags == InitTags /\ [][Next]_vars

\* one mounted directory whose files carry every mix of artist and
\* album_artist tags
ArtistChoices ==
    {SongTags(Some("t"), t[1], t[2], Some("A"), Some(2000)) :
        t \in {None, Some("X"), Some("Y")} \X {None, Some("X"), Some("Y")}}
ArtistEntries == {FileNode(Some(t), FALSE, TRUE) : t \in ArtistChoices}

InitArtist ==
    InitFrom({<<l, <<Track>>>> : l \in SeqsUpTo(ArtistEntries, MaxEntries + 1)},
             {<< <<1>> >>}, {LegacyStore}, {MaxCapacity}, {MaxChunk}, 1)

SpecArtist == InitArtist /\ [][Next]_vars

\* two mount points, the first either a root or D; the first root holds a directory D of up to MaxEntries + 2
\* entries (files of two albums, failed entries, sub-directories) and a
\* sibling directory of D listed after it
TagsZ == SongTags(Some("z"), Some("Z"), None, Some("B"), Some(2001))
WalkEntries ==
    {Track, FileNode(Some(TagsZ), FALSE, TRUE), ErrNode,
     DirNode(<<Track>>, FALSE)}
WalkFilesystems ==
    {<< <<DirNode(l, FALSE), DirNode(<<Track>>, FALSE)>>, <<Track>> >> :
        l \in SeqsUpTo(WalkEntries, MaxEntries + 2)}

InitWalk ==
    InitFrom(WalkFilesystems, {<< <<1>>, <<2>> >>, << <<1, 1>>, <<2>> >>},
             {LegacyStore}, 1..MaxCapacity, {MaxChunk}, 1)

SpecWalk == InitWalk /\ [][Next]_vars

(***************************************************************************)
(* History operators used by the properties.                               *)
(***************************************************************************)
\* the rows of the successful inserts into `table` of this update, in order
InsertedRows(table) ==
    LET F[i \in 0..Len(oplog)] ==
            IF i = 0 THEN <<>>
            ELSE IF oplog[i].op = "insert" /\ oplog[i].table = table
                    /\ oplog[i].ok
                 THEN F[i - 1] \o oplog[i].rows
                 ELSE F[i - 1]
    IN  F[Len(oplog)]

\* the statements of one kind
OpsOf(op, table) ==
    {i \in DOMAIN oplog : oplog[i].op = op /\ oplog[i].table = table}

Returned(r) == pc = "done" /\ result = r

\* every parent field of the rows names a stored Directory row
DirectoryParentsStored(d) ==
    \A r \in Rows(d) : IsSome(r.parent) => r.parent[1] \in StoredPaths(d)
SongParentsStored(s, d) ==
    \A r \in Rows(s) : r.parent \in StoredPaths(d)

\* the position at which the loop over a listing stops
LoopEnd(l) ==
    LET errs == {i \in DOMAIN l : l[i].kind = "err"}
    IN  IF errs = {} THEN Len(l) + 1
        ELSE CHOOSE i \in errs : \A j \in errs : i <= j

\* the positions, before position n, of the files of a directory whose tags
\* the loop reads successfully
Tagged(path, n) ==
    LET l == ReadDir(path)
    IN  {i \in 1..(Min(n, LoopEnd(l)) - 1) :
            l[i].kind = "file" /\ l[i].utf8 /\ IsSome(l[i].tags)}
TaggedAll(path) == Tagged(path, Len(ReadDir(path)) + 1)

TagsAt(path, i) == ReadDir(path)[i].tags[1]

\* the paths of the successfully tagged files before position n, in order
TaggedPaths(path, n) ==
    LET All == [i \in 1..(n - 1) |-> path \o <<i>>]
        Is(p) == p[Len(p)] \in Tagged(path, n)
    IN  SelectSeq(All, Is)

\* the paths of the songs pushed for a directory, in push order
PushedPathsOf(path) ==
    LET Of(r) == r.parent = path
    IN  SelectPaths(SelectSeq(pushed_songs, Of))

\* the aggregate state of a call after the tagged files before position n
AggregateBefore(f, n) ==
    LET l == ReadDir(f.path)
        F[i \in 0..(n - 1)] ==
            IF i = 0 THEN NewFrame(f.parent, f.path)
            ELSE IF i \in Tagged(f.path, n) THEN WithTags(F[i - 1], TagsAt(f.path, i))
            ELSE F[i - 1]
    IN  F[n - 1]

(***************************************************************************)
(* C1.  Two successive updates of an unchanged filesystem that both return *)
(* Ok leave the same set of Song rows and the same set of Directory rows   *)
(* after the second as after the first.                                    *)
(***************************************************************************)
UpdateIdempotent ==
    (runs >= 2 /\ Returned("ok")) =>
        /\ Rows(songs) = Rows(snap.prev_songs)
        /\ Rows(directories) = Rows(snap.prev_directories)

\* the second update has returned Ok after re-inserting rows of a store
\* whose first update had stale rows to delete
UpdateIdempotentWitness ==
    /\ runs = 2 /\ Returned("ok")
    /\ Len(songs) >= 2 /\ Len(directories) >= 2
    /\ Len(InsertedRows("songs")) >= 2
    /\ \E i \in DOMAIN songs : songs[i].path = <<1, 1>>

(***************************************************************************)
(* C3.  For every capacity, a population pass that returns Ok has inserted *)
(* every record handed to push_song / push_directory exactly once, in      *)
(* push order, and the tables are those of the pass that inserts each      *)
(* record on its own (capacity 1): the tables after clean with the pushed  *)
(* records inserted one after the other.                                   *)
(***************************************************************************)
CapacityOnlyBatches ==
    Returned("ok") =>
        /\ InsertedRows("songs") = pushed_songs
        /\ InsertedRows("directories") = pushed_directories
        /\ songs = InsertRows(snap.cleaned_songs, pushed_songs)
        /\ directories = InsertRows(snap.cleaned_directories, pushed_directories)

\* a pass with capacity above 1 whose pushes flushed a full song buffer
CapacityOnlyBatchesWitness ==
    /\ Returned("ok")
    /\ capacity >= 2
    /\ Len(pushed_songs) > capacity
    /\ Cardinality(OpsOf("insert", "songs")) >= 2
    /\ Cardinality(OpsOf("insert", "directories")) >= 2

(***************************************************************************)
(* C8.  In every update the deletes of clean precede every insert, the     *)
(* population starts only after clean has returned Ok with nothing left to *)
(* delete, a failed clean leaves no visit and no insert, and a failure of  *)
(* either phase makes update return an error.                              *)
(***************************************************************************)
CleanThenPopulate ==
    /\ \A i, j \in DOMAIN oplog :
          (i < j /\ oplog[i].op = "insert") => oplog[j].op = "insert"
    /\ (pc \in {"populate", "walk", "flush_directories"}
           \/ snap.populate # "none") =>
          /\ snap.clean = "ok"
          /\ missing = <<>>
          /\ \A r \in Rows(snap.cleaned_songs) \cup Rows(snap.cleaned_directories) :
                PathExists(r.path) /\ RealToVirtualOk(r.path)
    /\ snap.clean = "err" =>
          /\ Returned("err")
          /\ snap.populate = "none"
          /\ visits = <<>>
          /\ \A i \in DOMAIN oplog : oplog[i].op # "insert"
    /\ snap.populate = "err" => Returned("err")
    /\ Returned("ok") => snap.clean = "ok" /\ snap.populate = "ok"

\* an insert of the population after deletes of clean in songs and in
\* directories
CleanThenPopulateWitness ==
    /\ \E i \in OpsOf("delete", "songs") : oplog[i].ok
    /\ \E i \in OpsOf("delete", "directories") : oplog[i].ok
    /\ \E i \in OpsOf("insert", "songs") : oplog[i].ok /\ oplog[i].rows # <<>>

(***************************************************************************)
(* C9.  As claimed: at every point of a population pass that started from  *)
(* tables in which every parent was stored, the parent of every stored     *)
(* Song and Directory row is a stored Directory row.                       *)
(***************************************************************************)
ParentStoredBeforeChild ==
    (/\ snap.populate # "none"
     /\ DirectoryParentsStored(snap.cleaned_directories)
     /\ SongParentsStored(snap.cleaned_songs, snap.cleaned_directories)) =>
        /\ DirectoryParentsStored(directories)
        /\ SongParentsStored(songs, directories)

(***************************************************************************)
(* C9, amended.  At every point of such a pass the parent of every stored  *)
(* Directory row is a stored Directory row; the parent of every stored     *)
(* Song row is a stored Directory row once the pass has returned Ok.       *)
(***************************************************************************)
ParentStoredAmended ==
    (/\ snap.populate # "none"
     /\ DirectoryParentsStored(snap.cleaned_directories)
     /\ SongParentsStored(snap.cleaned_songs, snap.cleaned_directories)) =>
        /\ DirectoryParentsStored(directories)
        /\ Returned("ok") => SongParentsStored(songs, directories)

\* a finished pass that stored a sub-directory and songs of it, and had
\* flushed songs while their Directory row was not yet stored
ParentStoredAmendedWitness ==
    /\ Returned("ok")
    /\ \E r \in Rows(directories) : IsSome(r.parent)
    /\ \E r \in Rows(songs) : Len(r.parent) = 2
    /\ \E i \in OpsOf("insert", "songs") :
          /\ oplog[i].ok /\ oplog[i].rows # <<>>
          /\ \A j \in OpsOf("insert", "directories") : i < j

(***************************************************************************)
(* C10.  A failed insert is the last statement of the update: it is not    *)
(* retried, no directory is entered and no record is pushed after it,      *)
(* update has returned the error, and the tables hold the tables after     *)
(* clean with exactly the batches inserted successfully before it.         *)
(***************************************************************************)
FlushFailureAborts ==
    /\ \A i \in DOMAIN oplog :
          (oplog[i].op = "insert" /\ ~oplog[i].ok) =>
              /\ i = Len(oplog)
              /\ Returned("err")
              /\ snap.populate = "err"
    /\ snap.populate # "none" =>
          /\ songs = InsertRows(snap.cleaned_songs, InsertedRows("songs"))
          /\ directories =
                InsertRows(snap.cleaned_directories, InsertedRows("directories"))

\* a flush failed after an earlier batch had been inserted
FlushFailureAbortsWitness ==
    /\ Returned("err")
    /\ \E i, j \in DOMAIN oplog :
          /\ i < j
          /\ oplog[i].op = "insert" /\ oplog[i].ok /\ oplog[i].rows # <<>>
          /\ oplog[j].op = "insert" /\ ~oplog[j].ok
    /\ Len(visits) >= 2

(***************************************************************************)
(* C2.  When clean returns Ok, for every chunk size, a row stored when it  *)
(* started is gone if and only if its path does not exist on disk or       *)
(* real_to_virtual fails for it, and the rows that remain are the other    *)
(* rows, unmodified and in their order.                                    *)
(***************************************************************************)
CleanDeletesExactlyMissing ==
    LET Stale(p) == ~PathExists(p) \/ ~RealToVirtualOk(p)
        Fresh(r) == ~Stale(r.path)
    IN  (pc = "populate" /\ snap.clean = "ok") =>
            /\ \A r \in Rows(snap.start_songs) :
                  r \notin Rows(songs) <=> Stale(r.path)
            /\ \A r \in Rows(snap.start_directories) :
                  r \notin Rows(directories) <=> Stale(r.path)
            /\ songs = SelectSeq(snap.start_songs, Fresh)
            /\ directories = SelectSeq(snap.start_directories, Fresh)

\* clean returned Ok after several chunks, deleting a song that is gone and
\* a song that exists outside the mount points, and keeping a song
CleanDeletesExactlyMissingWitness ==
    /\ pc = "populate" /\ snap.clean = "ok"
    /\ Cardinality(OpsOf("delete", "songs")) >= 2
    /\ Cardinality(OpsOf("delete", "directories")) >= 2
    /\ \E r \in Rows(snap.start_songs) :
          r \notin Rows(songs) /\ PathExists(r.path)
    /\ \E r \in Rows(snap.start_songs) :
          r \notin Rows(songs) /\ ~PathExists(r.path)
    /\ songs # <<>> /\ directories # <<>>

(***************************************************************************)
(* C4.  The album (the year) of every Directory record is the one value    *)
(* that the successfully tagged files of the directory carry when at least *)
(* one carries the field and all that carry it agree, and is absent when   *)
(* two of them differ or none carries it, whatever the listing order.      *)
(***************************************************************************)
AlbumYearAggregate ==
    \A k \in DOMAIN pushed_directories :
        LET d == pushed_directories[k]
            albums == {TagsAt(d.path, i).album : i \in TaggedAll(d.path)} \ {None}
            years == {TagsAt(d.path, i).year : i \in TaggedAll(d.path)} \ {None}
        IN  /\ d.album = IF Cardinality(albums) = 1
                         THEN CHOOSE a \in albums : TRUE ELSE None
            /\ d.year = IF Cardinality(years) = 1
                        THEN CHOOSE y \in years : TRUE ELSE None

\* a record whose album is absent because two files differ, whose year is
\* kept although one of three tagged files carries none
AlbumYearAggregateWitness ==
    \E k \in DOMAIN pushed_directories :
        LET d == pushed_directories[k]
            T == TaggedAll(d.path)
        IN  /\ IsNone(d.album) /\ IsSome(d.year)
            /\ Cardinality(T) = 3
            /\ Cardinality({TagsAt(d.path, i).album : i \in T} \ {None}) = 2
            /\ \E i \in T : IsNone(TagsAt(d.path, i).year)

(***************************************************************************)
(* C5.  Every Directory record is the record computed from the tags of the *)
(* files listed in the directory itself: the files of its sub-directories  *)
(* do not change its album, year or artist.                                *)
(***************************************************************************)
OnlyDirectChildren ==
    \A k \in DOMAIN pushed_directories :
        LET d == pushed_directories[k]
            own == NewDirectory(AggregateBefore(d, Len(ReadDir(d.path)) + 1))
        IN  /\ d.album = own.album
            /\ d.year = own.year
            /\ d.artist = own.artist

\* a finished pass in which a directory kept album, year and artist while a
\* file of its sub-directory carries other values for all three
OnlyDirectChildrenWitness ==
    /\ Returned("ok")
    /\ \E k \in DOMAIN pushed_directories, n \in DOMAIN pushed_songs :
          LET d == pushed_directories[k]
              s == pushed_songs[n]
          IN  /\ ParentPath(s.parent) = d.path
              /\ IsSome(d.album) /\ IsSome(d.year) /\ IsSome(d.artist)
              /\ s.album # d.album /\ s.year # d.year /\ s.artist # d.artist
              /\ IsSome(s.album) /\ IsSome(s.year) /\ IsSome(s.artist)

(***************************************************************************)
(* C6.  The artwork of every Song record pushed for a directory is the     *)
(* first entry of the directory that matches the pattern, absent when no   *)
(* entry matches or a failed entry comes first, and it is the artwork of   *)
(* the Directory record of that directory.                                 *)
(***************************************************************************)
SongArtworkIsDirectoryArtwork ==
    \A n \in DOMAIN pushed_songs :
        LET s == pushed_songs[n]
            l == ReadDir(s.parent)
            first == {i \in DOMAIN l :
                        /\ l[i].kind # "err" /\ l[i].utf8 /\ l[i].art
                        /\ \A j \in 1..(i - 1) :
                              l[j].kind # "err" /\ ~(l[j].utf8 /\ l[j].art)}
        IN  /\ s.artwork = IF first = {} THEN None
                           ELSE Some(s.parent \o <<CHOOSE i \in first : TRUE>>)
            /\ \A k \in DOMAIN pushed_directories :
                  pushed_directories[k].path = s.parent =>
                      pushed_directories[k].artwork = s.artwork

\* a song that got the first of two matching entries of its directory, and
\* its directory's record
SongArtworkIsDirectoryArtworkWitness ==
    \E n \in DOMAIN pushed_songs, k \in DOMAIN pushed_directories :
        LET s == pushed_songs[n]
            l == ReadDir(s.parent)
        IN  /\ pushed_directories[k].path = s.parent
            /\ IsSome(s.artwork)
            /\ s.artwork[1] # s.path
            /\ \E j \in DOMAIN l : l[j].art /\ s.parent \o <<j>> # s.artwork[1]

(***************************************************************************)
(* C7.  A file whose tags cannot be read is skipped and nothing else: in   *)
(* every call in progress the aggregates and flags are those of the        *)
(* readable files listed so far and the songs pushed are those files; the  *)
(* Directory record is pushed after the loop, and then the songs pushed    *)
(* for the directory are all its readable files up to the end of the loop. *)
(***************************************************************************)
UnreadableFileSkipped ==
    /\ pc = "walk" =>
          \A k \in DOMAIN stack :
              LET f == stack[k]
                  g == AggregateBefore(f, f.idx)
              IN  f.phase = "list" =>
                    /\ f.directory_album = g.directory_album
                    /\ f.directory_year = g.directory_year
                    /\ f.directory_artist = g.directory_artist
                    /\ f.inconsistent_directory_album = g.inconsistent_directory_album
                    /\ f.inconsistent_directory_year = g.inconsistent_directory_year
                    /\ f.inconsistent_directory_artist = g.inconsistent_directory_artist
                    /\ PushedPathsOf(f.path) = TaggedPaths(f.path, f.idx)
    /\ \A k \in DOMAIN pushed_directories :
          LET d == pushed_directories[k]
          IN  PushedPathsOf(d.path) =
                 TaggedPaths(d.path, Len(ReadDir(d.path)) + 1)
    /\ \A k \in DOMAIN visits :
          \/ \E j \in DOMAIN pushed_directories :
                pushed_directories[j].path = visits[k].path
          \/ \E j \in DOMAIN stack : stack[j].path = visits[k].path
          \/ k = Len(visits) /\ Returned("err")

\* a pass that returned Ok, with the record of a directory in which an
\* unreadable file is listed before a file whose song was pushed
UnreadableFileSkippedWitness ==
    /\ Returned("ok")
    /\ \E k \in DOMAIN pushed_directories :
          LET d == pushed_directories[k]
              l == ReadDir(d.path)
          IN  \E i, j \in DOMAIN l :
                /\ i < j
                /\ l[i].kind = "file" /\ l[i].utf8 /\ IsNone(l[i].tags)
                /\ \E n \in DOMAIN pushed_songs :
                      pushed_songs[n].path = d.path \o <<j>>

\* the last element of a non-empty sequence
Last(s) == s[Len(s)]

\* a step in which push_song (push_directory) was called and returned Ok
PushSongOk == pushed_songs' # pushed_songs /\ pc' = "walk"
PushDirectoryOk == pushed_directories' # pushed_directories /\ pc' = "walk"

\* a step that sent a successful insert into `table` to the store
FlushOk(table) ==
    /\ Len(oplog') = Len(oplog) + 1
    /\ Last(oplog').op = "insert" /\ Last(oplog').table = table
    /\ Last(oplog').ok

\* what a step does to one buffer when it pushed a record and returned Ok
PushStep(buffer, buffer2, table, table2, name, pushed2) ==
    IF Len(buffer) >= capacity
    THEN /\ FlushOk(name)
         /\ Last(oplog').rows = buffer
         /\ table2 = InsertRows(table, buffer)
         /\ buffer2 = <<Last(pushed2)>>
    ELSE /\ oplog' = oplog
         /\ table2 = table
         /\ buffer2 = Append(buffer, Last(pushed2))

PushOrFlushStep ==
    /\ PushSongOk =>
          PushStep(new_songs, new_songs', songs, songs', "songs", pushed_songs')
    /\ PushDirectoryOk =>
          PushStep(new_directories, new_directories', directories,
                   directories', "directories", pushed_directories')
    /\ (FlushOk("songs") /\ pushed_songs' = pushed_songs) =>
          (new_songs' = <<>>)
    /\ (FlushOk("directories") /\ pushed_directories' = pushed_directories) =>
          (new_directories' = <<>>)

(***************************************************************************)
(* C11.  The length of each buffer never exceeds the capacity; a push onto *)
(* a buffer whose length has reached the capacity inserts the buffered     *)
(* records, then holds the new record alone, a push onto a shorter buffer  *)
(* appends without a flush; and after a successful flush that no push      *)
(* follows the flushed buffer is empty.                                    *)
(***************************************************************************)
BufferWithinCapacity ==
    /\ [](Len(new_songs) <= capacity /\ Len(new_directories) <= capacity)
    /\ [][PushOrFlushStep]_vars

\* both buffers are full, with capacity above 1, after a push that flushed
\* a full song buffer
BufferWithinCapacityWitness ==
    /\ capacity >= 2
    /\ Len(new_songs) = capacity /\ Len(new_directories) = capacity
    /\ \E i \in OpsOf("insert", "songs") :
          oplog[i].ok /\ Len(oplog[i].rows) = capacity

\* a file's effective artist: its album_artist when present, else its artist
EffectiveArtist(tags) ==
    IF IsSome(tags.album_artist) THEN tags.album_artist ELSE tags.artist

(***************************************************************************)
(* C12.  The artist of every Directory record is the one effective artist  *)
(* of the successfully tagged files of the directory when at least one has *)
(* an effective artist and all effective artists agree, and is absent when *)
(* two of them differ or no file has one.                                  *)
(***************************************************************************)
ArtistAggregate ==
    \A k \in DOMAIN pushed_directories :
        LET d == pushed_directories[k]
            artists == {EffectiveArtist(TagsAt(d.path, i)) :
                           i \in TaggedAll(d.path)} \ {None}
        IN  d.artist = IF Cardinality(artists) = 1
                       THEN CHOOSE a \in artists : TRUE ELSE None

\* a record whose artist is kept over three files: one names it as
\* album_artist beside another artist, one as artist only, one has neither
ArtistAggregateWitness ==
    \E k \in DOMAIN pushed_directories :
        LET d == pushed_directories[k]
            T == TaggedAll(d.path)
        IN  /\ IsSome(d.artist)
            /\ \E i \in T : /\ TagsAt(d.path, i).album_artist = d.artist
                            /\ IsSome(TagsAt(d.path, i).artist)
                            /\ TagsAt(d.path, i).artist # d.artist
            /\ \E i \in T : /\ IsNone(TagsAt(d.path, i).album_artist)
                            /\ TagsAt(d.path, i).artist = d.artist
            /\ \E i \in T : /\ IsNone(TagsAt(d.path, i).album_artist)
                            /\ IsNone(TagsAt(d.path, i).artist)

\* the directories whose listing the walk has entered
Visited == {visits[k].path : k \in DOMAIN visits}

\* the paths of the Directory records pushed so far
PushedDirectoryPaths == StoredPaths(pushed_directories)

\* the sub-directories of a directory that its loop collects
Collected(path) ==
    LET l == ReadDir(path)
    IN  {path \o <<i>> : i \in {j \in 1..(LoopEnd(l) - 1) : l[j].kind = "dir"}}

\* the listing of the directory has a failed entry
HasEntryError(path) == LoopEnd(ReadDir(path)) <= Len(ReadDir(path))

\* the loop of the call on top of the stack is at a failed entry
AtEntryError ==
    /\ pc = "walk" /\ stack # <<>>
    /\ Top.phase = "list"
    /\ Top.idx <= Len(ReadDir(Top.path))
    /\ ReadDir(Top.path)[Top.idx].kind = "err"

\* what holds of a directory D whose listing has a failed entry
EntryErrorIsLocal ==
    \A k \in DOMAIN visits :
        LET D == visits[k].path
            e == LoopEnd(ReadDir(D))
        IN  HasEntryError(D) =>
              \* nothing listed after the failed entry is processed
              /\ \A n \in DOMAIN pushed_songs :
                    pushed_songs[n].parent = D =>
                        pushed_songs[n].path[Len(D) + 1] < e
              /\ \A p \in Visited :
                    (Len(p) = Len(D) + 1 /\ ParentPath(p) = D) => p[Len(p)] < e
              \* the record of D carries the aggregates of the files before it
              /\ \A j \in DOMAIN pushed_directories :
                    LET d == pushed_directories[j]
                        own == NewDirectory(AggregateBefore(d, e))
                    IN  d.path = D =>
                          /\ d.album = own.album /\ d.year = own.year
                          /\ d.artist = own.artist
                          /\ PushedPathsOf(D) = TaggedPaths(D, e)
              \* a pass that returns Ok has recorded D, populated what D
              \* collected, and walked the siblings of D
              /\ Returned("ok") =>
                    /\ D \in PushedDirectoryPaths
                    /\ Collected(D) \subseteq Visited
                    /\ Collected(D) \subseteq PushedDirectoryPaths
                    /\ IF D \in Range(mounts) THEN Range(mounts) \subseteq Visited
                       ELSE Collected(ParentPath(D)) \subseteq Visited

(***************************************************************************)
(* C13.  A failed entry in the listing of a directory D ends the loop over *)
(* D without an error: the step leaves the pass running, nothing listed    *)
(* after the failed entry is read or entered, the record of D is pushed    *)
(* with the aggregates of the files before it, and a pass that returns Ok  *)
(* has populated the sub-directories collected before it and the siblings  *)
(* of D.                                                                   *)
(***************************************************************************)
EnumerationErrorIsLocal ==
    /\ []EntryErrorIsLocal
    /\ [][AtEntryError =>
            /\ pc' = "walk" /\ result' = result
            /\ Len(stack') = Len(stack)
            /\ Top'.idx > Len(ReadDir(Top.path))
            /\ Top'.sub_directories = Top.sub_directories
            /\ UNCHANGED <<new_songs, new_directories, songs, directories,
                           pushed_songs, pushed_directories>>]_vars

\* a pass returned Ok over a directory that lists a file, a sub-directory,
\* a failed entry and then a file of another album: its record keeps the
\* album of the first file, its sibling was walked
EnumerationErrorIsLocalWitness ==
    /\ Returned("ok")
    /\ LET D == <<1, 1>>
           l == ReadDir(D)
       IN  /\ Len(l) >= 3 /\ LoopEnd(l) = 3
           /\ \E i \in 1..2 : l[i].kind = "dir"
           /\ \E i \in 1..2 : l[i].kind = "file"
           /\ \E i \in 4..Len(l) : l[i].kind = "file" /\ l[i].tags # l[1].tags
                                     /\ l[i].tags # l[2].tags
           /\ \E j \in DOMAIN pushed_directories :
                 pushed_directories[j].path = D
                    /\ IsSome(pushed_directories[j].album)
           /\ <<1>> \in Range(mounts)
           /\ <<1, 2>> \in Visited /\ <<2>> \in Visited

\* the paths of the chunks that clean deleted from `table` successfully
DeletedPaths(table) ==
    UNION {Range(oplog[i].rows) : i \in {j \in OpsOf("delete", table) : oplog[j].ok}}

(***************************************************************************)
(* C14.  As claimed: when clean has returned an error, the store holds the *)
(* same Song and Directory rows as when clean started.                     *)
(***************************************************************************)
CleanFailureLeavesStore ==
    snap.clean = "err" =>
        /\ Rows(songs) = Rows(snap.start_songs)
        /\ Rows(directories) = Rows(snap.start_directories)

(***************************************************************************)
(* C14, amended.  A listing or delete failure ends clean and update with   *)
(* an error at once: a failed delete is the last statement and nothing is  *)
(* inserted.  The chunks deleted before the failure stay deleted: the      *)
(* store holds the rows it held when clean started except the rows of the  *)
(* chunks whose delete succeeded, and every one of those is a missing row. *)
(***************************************************************************)
CleanFailureKeepsDeletedChunks ==
    snap.clean = "err" =>
        /\ Returned("err")
        /\ \A i \in DOMAIN oplog :
              /\ oplog[i].op = "delete"
              /\ ~oplog[i].ok => i = Len(oplog)
        /\ songs = WithoutPaths(snap.start_songs, DeletedPaths("songs"))
        /\ directories =
              WithoutPaths(snap.start_directories, DeletedPaths("directories"))
        /\ \A p \in DeletedPaths("songs") \cup DeletedPaths("directories") :
              ~PathExists(p) \/ ~RealToVirtualOk(p)

\* clean returned an error on a delete after a chunk of songs had been
\* deleted: one missing song is gone, another missing song is still stored
CleanFailureKeepsDeletedChunksWitness ==
    /\ snap.clean = "err"
    /\ oplog # <<>> /\ ~Last(oplog).ok /\ Last(oplog).table = "songs"
    /\ DeletedPaths("songs") # {}
    /\ Rows(songs) # Rows(snap.start_songs)
    /\ \E r \in Rows(songs) : ~PathExists(r.path)

\* the calls of populate_directory that failed on the path string or on the
\* timestamps of the directory
FailedEntering ==
    {k \in DOMAIN visits : visits[k].outcome \in {"invalid_path", "metadata_err"}}

(***************************************************************************)
(* C15.  A directory whose path is no string or whose timestamps cannot be *)
(* read ends the update with an error in that step: no record is pushed    *)
(* for it, the step sends nothing to the store, no directory is entered    *)
(* after it, no flush follows, and the records in the buffers, which are   *)
(* the pushed records not yet inserted, are not in the store.              *)
(***************************************************************************)
EnterFailureAborts ==
    /\ [](\A k \in FailedEntering :
             /\ k = Len(visits)
             /\ Returned("err") /\ snap.populate = "err"
             /\ \A j \in DOMAIN pushed_directories :
                   pushed_directories[j].path # visits[k].path
             /\ \A i \in DOMAIN oplog : oplog[i].ok
             /\ \A i \in OpsOf("insert", "songs") \cup OpsOf("insert", "directories") :
                   Len(oplog[i].rows) = capacity
             /\ pushed_songs = InsertedRows("songs") \o new_songs
             /\ pushed_directories = InsertedRows("directories") \o new_directories
             /\ songs = InsertRows(snap.cleaned_songs, InsertedRows("songs"))
             /\ directories =
                   InsertRows(snap.cleaned_directories, InsertedRows("directories"))
             /\ \A r \in Range(new_songs) : r \notin Rows(songs)
             /\ \A r \in Range(new_directories) : r \notin Rows(directories))
    /\ [][FailedEntering' # {} =>
            UNCHANGED <<songs, directories, oplog, new_songs, new_directories,
                        pushed_songs, pushed_directories>>]_vars

\* the timestamps of a sub-directory of depth three could not be read while
\* both buffers held records: its sibling and the second mount point were
\* never entered
EnterFailureAbortsWitness ==
    /\ FailedEntering # {}
    /\ Last(visits).outcome = "metadata_err"
    /\ Len(Last(visits).path) = 3
    /\ new_songs # <<>> /\ new_directories # <<>>
    /\ <<1>> \in Visited
    /\ IsDir(<<1, 2>>) /\ <<1, 2>> \notin Visited
    /\ <<2>> \notin Visited

(***************************************************************************)
(* C16.  The parent of the Directory record pushed for a mount point is    *)
(* absent; the parent of every other Directory record is the path of the   *)
(* directory whose listing holds it as a sub-directory; the parent of      *)
(* every Song record is the directory that lists the file, which is the    *)
(* path of the call that pushed it and of the Directory record that call   *)
(* pushes.                                                                 *)
(***************************************************************************)
ParentFields ==
    /\ \A j \in DOMAIN pushed_directories :
          LET d == pushed_directories[j]
          IN  IF d.path \in Range(mounts) THEN d.parent = None
              ELSE /\ d.parent = Some(ParentPath(d.path))
                   /\ d.path \in Collected(d.parent[1])
                   /\ d.parent[1] \in PushedDirectoryPaths
    /\ \A n \in DOMAIN pushed_songs :
          LET s == pushed_songs[n]
          IN  /\ s.parent = ParentPath(s.path)
              /\ s.path[Len(s.path)] \in TaggedAll(s.parent)
              /\ \/ \E k \in DOMAIN stack :
                       stack[k].path = s.parent /\ stack[k].phase = "list"
                 \/ s.parent \in PushedDirectoryPaths
                 \/ Returned("err")
    /\ Returned("ok") =>
          \A n \in DOMAIN pushed_songs :
              pushed_songs[n].parent \in PushedDirectoryPaths

\* a finished pass from a mount point of depth two: its record has no
\* parent, the record of a sub-directory and a song of each name it
WalkedDirectory == <<1, 1>>
ParentFieldsWitness ==
    /\ Returned("ok")
    /\ WalkedDirectory \in Range(mounts)
    /\ \E j, k \in DOMAIN pushed_directories :
          /\ pushed_directories[j].path = WalkedDirectory
          /\ pushed_directories[j].parent = None
          /\ pushed_directories[k].parent = Some(WalkedDirectory)
    /\ \E n, o \in DOMAIN pushed_songs :
          /\ pushed_songs[n].parent = WalkedDirectory
          /\ Len(pushed_songs[o].parent) = 3

\* no mount point is listed twice or lies below another one
MountsApart ==
    \A i, j \in DOMAIN mounts : i # j => ~IsPrefix(mounts[i], mounts[j])

NoDuplicatePaths(rows) == Cardinality(StoredPaths(rows)) = Len(rows)

RECURSIVE DirectoriesBelow(_)
\* a directory and every directory below it on disk
DirectoriesBelow(path) ==
    LET l == ReadDir(path)
    IN  {path} \cup UNION {DirectoriesBelow(path \o <<i>>) :
                              i \in {j \in DOMAIN l : l[j].kind = "dir"}}

\* the regular files of a directory whose tags can be read
ReadableFiles(path) ==
    LET l == ReadDir(path)
    IN  {path \o <<i>> : i \in {j \in DOMAIN l : l[j].kind = "file"
                                                    /\ IsSome(l[j].tags)}}

RECURSIVE DirectoriesWalked(_)
\* a directory and every directory that the walk reaches from it: those
\* listed before the first failed entry of their parent
DirectoriesWalked(path) ==
    {path} \cup UNION {DirectoriesWalked(p) : p \in Collected(path)}

\* the files of a directory that are listed before its first failed entry,
\* have a unicode path and tags that can be read
FilesTagged(path) == {path \o <<i>> : i \in TaggedAll(path)}

(***************************************************************************)
(* C17.  As claimed: a pass that returns Ok over mount points that are     *)
(* apart has inserted exactly one Directory row for every directory on     *)
(* disk below a mount point and exactly one Song row for every regular     *)
(* file below one whose tags can be read, and nothing else.                *)
(***************************************************************************)
OneRecordPerEntry ==
    (Returned("ok") /\ MountsApart) =>
        LET dirs == UNION {DirectoriesBelow(mounts[i]) : i \in DOMAIN mounts}
        IN  /\ NoDuplicatePaths(InsertedRows("directories"))
            /\ NoDuplicatePaths(InsertedRows("songs"))
            /\ StoredPaths(InsertedRows("directories")) = dirs
            /\ StoredPaths(InsertedRows("songs")) =
                  UNION {ReadableFiles(d) : d \in dirs}

(***************************************************************************)
(* C17, amended.  Such a pass has inserted exactly one Directory row for   *)
(* every directory that is a mount point or is listed, before any failed   *)
(* entry, in a directory the walk entered, and exactly one Song row for    *)
(* every file listed there before any failed entry whose path is unicode   *)
(* and whose tags can be read, and nothing else; the rows are in the       *)
(* tables.                                                                 *)
(***************************************************************************)
OneRecordPerWalkedEntry ==
    (Returned("ok") /\ MountsApart) =>
        LET dirs == UNION {DirectoriesWalked(mounts[i]) : i \in DOMAIN mounts}
        IN  /\ NoDuplicatePaths(InsertedRows("directories"))
            /\ NoDuplicatePaths(InsertedRows("songs"))
            /\ StoredPaths(InsertedRows("directories")) = dirs
            /\ StoredPaths(InsertedRows("songs")) =
                  UNION {FilesTagged(d) : d \in dirs}
            /\ Rows(InsertedRows("directories")) \subseteq Rows(directories)
            /\ Rows(InsertedRows("songs")) \subseteq Rows(songs)

\* a pass returned Ok after several batches over a tree of depth three in
\* which a failed entry hides a sub-directory and a readable file
OneRecordPerWalkedEntryWitness ==
    /\ Returned("ok") /\ MountsApart
    /\ Cardinality(OpsOf("insert", "songs")) >= 2
    /\ Cardinality(OpsOf("insert", "directories")) >= 2
    /\ \E d \in StoredPaths(InsertedRows("directories")) :
          /\ Len(d) = 3
          /\ DirectoriesBelow(ParentPath(d)) # DirectoriesWalked(ParentPath(d))
          /\ ReadableFiles(ParentPath(d)) # FilesTagged(ParentPath(d))

\* the successful inserts into directories, as positions of oplog
DirectoryBatches == {i \in OpsOf("insert", "directories") : oplog[i].ok}

\* the row at position k of batch i has its parent before it in the batch
ParentInBatch(i, k) ==
    \E n \in 1..(k - 1) : oplog[i].rows[n].path = oplog[i].rows[k].parent[1]

\* the row at position k of batch i has its parent in an earlier batch
ParentInEarlierBatch(i, k) ==
    \E j \in DirectoryBatches :
        /\ j < i
        /\ oplog[i].rows[k].parent[1] \in StoredPaths(oplog[j].rows)

(***************************************************************************)
(* C18.  At every point of a pass, also after it aborted, every Directory  *)
(* row inserted with a parent P follows the row with path P: that row is   *)
(* earlier in the same batch or in an earlier batch.  The same order holds *)
(* among the records pushed.                                               *)
(***************************************************************************)
DirectoriesInPreOrder ==
    /\ \A i \in DirectoryBatches :
          \A k \in DOMAIN oplog[i].rows :
              IsSome(oplog[i].rows[k].parent) =>
                  ParentInBatch(i, k) \/ ParentInEarlierBatch(i, k)
    /\ \A k \in DOMAIN pushed_directories :
          IsSome(pushed_directories[k].parent) =>
              \E n \in 1..(k - 1) :
                  pushed_directories[n].path = pushed_directories[k].parent[1]

\* a pass with capacity above 1 aborted after two batches of directories:
\* one row shares the batch of its parent, another follows its parent's
\* batch
DirectoriesInPreOrderWitness ==
    /\ Returned("err")
    /\ capacity >= 2
    /\ Cardinality(DirectoryBatches) >= 2
    /\ \E i \in DirectoryBatches : \E k \in DOMAIN oplog[i].rows :
          IsSome(oplog[i].rows[k].parent) /\ ParentInBatch(i, k)
    /\ \E i \in DirectoryBatches : \E k \in DOMAIN oplog[i].rows :
          IsSome(oplog[i].rows[k].parent) /\ ParentInEarlierBatch(i, k)

\* the path of a row is gone from the disk or maps to no virtual path
StaleRow(r) == ~PathExists(r.path) \/ ~RealToVirtualOk(r.path)

(***************************************************************************)
(* C19.  Whatever rows the store held, once update has returned Ok every   *)
(* stored Song and Directory row has a path that exists on disk and that   *)
(* real_to_virtual maps.                                                   *)
(***************************************************************************)
NoStaleRows ==
    Returned("ok") =>
        \A r \in Rows(songs) \cup Rows(directories) : ~StaleRow(r)

\* update returned Ok on a store that held rows whose path is gone and rows
\* whose path exists outside every mount point, in both tables, and it
\* inserted rows of its own
NoStaleRowsWitness ==
    /\ Returned("ok")
    /\ \E r \in Rows(snap.start_songs) : ~PathExists(r.path)
    /\ \E r \in Rows(snap.start_songs) :
          PathExists(r.path) /\ ~RealToVirtualOk(r.path)
    /\ \E r \in Rows(snap.start_directories) : ~PathExists(r.path)
    /\ \E r \in Rows(snap.start_directories) :
          PathExists(r.path) /\ ~RealToVirtualOk(r.path)
    /\ InsertedRows("songs") # <<>> /\ InsertedRows("directories") # <<>>

\* a step in which push_song (push_directory) was called and its flush failed
PushSongFailed ==
    /\ pushed_songs' # pushed_songs
    /\ Len(oplog') = Len(oplog) + 1 /\ ~Last(oplog').ok
PushDirectoryFailed ==
    /\ pushed_directories' # pushed_directories
    /\ Len(oplog') = Len(oplog) + 1 /\ ~Last(oplog').ok

(***************************************************************************)
(* C20.  A push whose flush fails returns the error and changes neither    *)
(* buffer and neither table: the statement that failed carried the         *)
(* buffered records, they stay buffered, in order, without the new record, *)
(* and the pass ends with the error.                                       *)
(***************************************************************************)
FailedPushKeepsBuffer ==
    [][/\ PushSongFailed =>
            /\ Last(oplog').table = "songs" /\ Last(oplog').rows = new_songs
       /\ PushDirectoryFailed =>
            /\ Last(oplog').table = "directories"
            /\ Last(oplog').rows = new_directories
       /\ (PushSongFailed \/ PushDirectoryFailed) =>
            /\ UNCHANGED <<new_songs, new_directories, songs, directories>>
            /\ pc' = "done" /\ result' = "err"
      ]_vars

\* push_song failed on a full buffer of more than one record while the
\* directory buffer held records: both still hold them, the song that was
\* to be pushed is in neither the buffer nor the table
FailedPushKeepsBufferWitness ==
    /\ Returned("err")
    /\ oplog # <<>> /\ ~Last(oplog).ok
    /\ Last(oplog).table = "songs" /\ Last(oplog).rows = new_songs
    /\ capacity >= 2 /\ Len(new_songs) = capacity
    /\ new_directories # <<>>
    /\ pushed_songs # <<>>
    /\ Last(pushed_songs) \notin Range(new_songs)
    /\ Last(pushed_songs) \notin Rows(songs)
    /\ \A r \in Range(new_songs) : r \notin Rows(songs)

====
